---- MODULE Spec2Model ----
(***************************************************************************)
(* Model of scripts/build.py: the build pipeline that discovers marimo     *)
(* notebooks under notebooks/ and apps/, exports each one with the         *)
(* external renderer and writes index.html.                                *)
(*                                                                         *)
(* Python strings are sequences of one-character strings, so that          *)
(* str.replace, str.startswith, Path.name, re.sub, str.title and the       *)
(* ordering of strings are computed character by character, as Python      *)
(* computes them.                                                          *)
(***************************************************************************)
EXTENDS Integers, Sequences, FiniteSets, TLC

(***************************************************************************)
(* Bound of the model: the number of files in the source tree.             *)
(***************************************************************************)
MaxFiles == 2

----------------------------------------------------------------------------
(* Characters                                                              *)

DigitChars == <<"0", "1", "2", "3", "4", "5", "6", "7", "8", "9">>

LowerChars ==
    <<"a", "b", "c", "d", "e", "f", "g", "h", "i", "j", "k", "l", "m",
      "n", "o", "p", "q", "r", "s", "t", "u", "v", "w", "x", "y", "z">>

UpperChars ==
    <<"A", "B", "C", "D", "E", "F", "G", "H", "I", "J", "K", "L", "M",
      "N", "O", "P", "Q", "R", "S", "T", "U", "V", "W", "X", "Y", "Z">>

Range(s) == {s[n] : n \in DOMAIN s}

IndexOf(s, c) == CHOOSE n \in DOMAIN s : s[n] = c

IsDigit(c) == c \in Range(DigitChars)
IsLower(c) == c \in Range(LowerChars)
IsUpper(c) == c \in Range(UpperChars)
IsCased(c) == IsLower(c) \/ IsUpper(c)

ToUpper(c) == IF IsLower(c) THEN UpperChars[IndexOf(LowerChars, c)] ELSE c
ToLower(c) == IF IsUpper(c) THEN LowerChars[IndexOf(UpperChars, c)] ELSE c

(* The code point of a character: Python orders strings by code point.     *)
Ord(c) ==
    IF IsDigit(c) THEN 47 + IndexOf(DigitChars, c)
    ELSE IF IsUpper(c) THEN 64 + IndexOf(UpperChars, c)
    ELSE IF IsLower(c) THEN 96 + IndexOf(LowerChars, c)
    ELSE CASE c = " " -> 32
           [] c = "-" -> 45
           [] c = "." -> 46
           [] c = "/" -> 47
           [] c = "_" -> 95

----------------------------------------------------------------------------
(* Operations of str, pathlib.Path and re that build.py uses               *)

Drop(s, n) == SubSeq(s, n + 1, Len(s))

(* str.startswith *)
StartsWith(s, prefix) ==
    /\ Len(s) >= Len(prefix)
    /\ SubSeq(s, 1, Len(prefix)) = prefix

(* str.endswith *)
EndsWith(s, suffix) ==
    /\ Len(s) >= Len(suffix)
    /\ Drop(s, Len(s) - Len(suffix)) = suffix

(* s < t for two Python strings: lexicographic by code point *)
RECURSIVE StrLess(_, _)
StrLess(s, t) ==
    IF t = <<>> THEN FALSE
    ELSE IF s = <<>> THEN TRUE
    ELSE IF Ord(s[1]) # Ord(t[1]) THEN Ord(s[1]) < Ord(t[1])
    ELSE StrLess(Tail(s), Tail(t))

(* str.replace(old, new): every non-overlapping occurrence of old, scanning *)
(* from the left, becomes new.                                              *)
RECURSIVE StrReplace(_, _, _)
StrReplace(s, old, new) ==
    IF s = <<>> THEN <<>>
    ELSE IF StartsWith(s, old) THEN new \o StrReplace(Drop(s, Len(old)), old, new)
    ELSE <<s[1]>> \o StrReplace(Tail(s), old, new)

(* Path(x).name: the last component of the path *)
RECURSIVE PathName(_)
PathName(x) ==
    IF \E n \in DOMAIN x : x[n] = "/"
    THEN PathName(Drop(x, CHOOSE n \in DOMAIN x : x[n] = "/"))
    ELSE x

(* The first component of a relative path: the directory rglob started in  *)
TopDir(x) == SubSeq(x, 1, (CHOOSE n \in DOMAIN x : x[n] = "/" /\ \A m \in 1..(n - 1) : x[m] # "/") - 1)

(* re.sub(r"^\d{4}-\d{2}-\d{2}-", "", s) *)
HasDatePrefix(s) ==
    /\ Len(s) >= 11
    /\ \A n \in {1, 2, 3, 4, 6, 7, 9, 10} : IsDigit(s[n])
    /\ \A n \in {5, 8, 11} : s[n] = "-"

StripDatePrefix(s) == IF HasDatePrefix(s) THEN Drop(s, 11) ELSE s

(* str.title(): the first cased character of every run of cased characters *)
(* is upper-cased and the rest of the run is lower-cased.                  *)
RECURSIVE TitleFrom(_, _)
TitleFrom(s, prevCased) ==
    IF s = <<>> THEN <<>>
    ELSE <<IF prevCased THEN ToLower(s[1]) ELSE ToUpper(s[1])>>
             \o TitleFrom(Tail(s), IsCased(s[1]))

StrTitle(s) == TitleFrom(s, FALSE)

DotPy == <<".", "p", "y">>
DotHtml == <<".", "h", "t", "m", "l">>

----------------------------------------------------------------------------
(* The inputs of a run: the source tree and notebook_metadata.yml          *)

Str_notebooks == <<"n", "o", "t", "e", "b", "o", "o", "k", "s">>
Str_apps == <<"a", "p", "p", "s">>
Str_apps_slash == <<"a", "p", "p", "s", "/">>
Str_site == <<"_", "s", "i", "t", "e">>
Str_title == <<"t", "i", "t", "l", "e">>
Str_description == <<"d", "e", "s", "c", "r", "i", "p", "t", "i", "o", "n">>
Str_image == <<"i", "m", "a", "g", "e">>
Str_None == <<"N", "o", "n", "e">>
Str_underscore == <<"_">>
Str_space == <<" ">>
Str_slash == <<"/">>

(* The directories main scans, in the order it scans them *)
SourceDirs == <<Str_notebooks, Str_apps>>

(* The files a source tree may hold *)
File_nb_a_py == <<"n", "o", "t", "e", "b", "o", "o", "k", "s", "/", "a", ".", "p", "y", ".", "p", "y">>
File_nb_a_html == <<"n", "o", "t", "e", "b", "o", "o", "k", "s", "/", "a", ".", "h", "t", "m", "l", ".", "p", "y">>
File_nb_x_a_py == <<"n", "o", "t", "e", "b", "o", "o", "k", "s", "/", "x", "/", "a", ".", "p", "y", ".", "p", "y">>
File_apps_a == <<"a", "p", "p", "s", "/", "a", ".", "p", "y">>
File_apps_dated == <<"a", "p", "p", "s", "/", "2", "0", "2", "5", "-", "0", "3", "-", "1", "5", "-", "b", "_", "c", ".", "p", "y">>
File_apps_md == <<"a", "p", "p", "s", "/", "r", ".", "m", "d">>

TreeFiles ==
    {File_nb_a_py, File_nb_a_html, File_nb_x_a_py,
     File_apps_a, File_apps_dated, File_apps_md}

(* Values yaml.safe_load may return, as far as build.py looks into them:   *)
(* t is the Python type, d the characters of a str or the items of a dict  *)
PyNone == [t |-> "None", d |-> <<>>]
PyList == [t |-> "list", d |-> <<>>]
PyStr(s) == [t |-> "str", d |-> s]
PyDict(f) == [t |-> "dict", d |-> f]
EmptyDict == PyDict(<<>>)

Key_a == <<"a">>
Val_Hi == PyStr(<<"H", "i">>)
Val_d == PyStr(<<"d">>)
Val_img == PyStr(<<"i", ".", "p", "n", "g">>)

Notebooks(v) == PyDict(Str_notebooks :> v)

(* What open() and yaml.safe_load make of notebook_metadata.yml *)
MetaFiles ==
    {[kind |-> "absent", config |-> PyNone],
     [kind |-> "unreadable", config |-> PyNone],
     [kind |-> "unparseable", config |-> PyNone],
     [kind |-> "parsed", config |-> PyNone],
     [kind |-> "parsed", config |-> PyList],
     [kind |-> "parsed", config |-> EmptyDict],
     [kind |-> "parsed", config |-> Notebooks(PyNone)],
     [kind |-> "parsed", config |-> Notebooks(PyList)],
     [kind |-> "parsed", config |-> Notebooks(PyDict(Key_a :> PyNone))],
     [kind |-> "parsed", config |-> Notebooks(PyDict(Key_a :> Val_Hi))],
     [kind |-> "parsed", config |-> Notebooks(PyDict(Key_a :> PyDict(Str_title :> Val_Hi)))],
     [kind |-> "parsed", config |-> Notebooks(PyDict(Key_a :>
         PyDict(Str_title :> Val_Hi @@ Str_description :> Val_d @@ Str_image :> Val_img)))]}

----------------------------------------------------------------------------
(* The state of a run                                                      *)

VARIABLES
    fsDirs,             \* the source directories that exist
    fsFiles,            \* the files of the source tree
    metaFile,           \* notebook_metadata.yml, as open and yaml.safe_load see it
    pc,                 \* the position of main
    all_notebooks,      \* main's list of discovered notebooks
    i,                  \* 1-based position of main's export loop in all_notebooks
    running,            \* the renderer subprocess main waits for, or <<>>
    exports,            \* the calls of export_html_wasm made so far, in order
    dirs,               \* the directories that exist under the output root
    notebook_metadata,  \* generate_index's metadata, once loaded
    k,                  \* 1-based position of generate_index's card loop
    index,              \* the content of index.html
    printed,            \* the kinds of message printed so far
    exitStatus,         \* "running", or the exit status of the process
    exc,                \* the exception that ended the process, or ""
    run,                \* 1 in the first run over the inputs, 2 in the second
    firstIndex          \* index.html as the first run left it

vars ==
    <<fsDirs, fsFiles, metaFile, pc, all_notebooks, i, running, exports, dirs,
      notebook_metadata, k, index, printed, exitStatus, exc, run, firstIndex>>

inputs == <<fsDirs, fsFiles, metaFile>>

NoFile == [exists |-> FALSE, header |-> FALSE, cards |-> <<>>, footer |-> FALSE]

(* --output-dir, left at its default *)
output_dir == Str_site

----------------------------------------------------------------------------
(* main: discovery                                                         *)

(* The orders in which a set can be listed *)
RECURSIVE Orders(_)
Orders(S) ==
    IF S = {} THEN {<<>>}
    ELSE UNION {{<<x>> \o rest : rest \in Orders(S \ {x})} : x \in S}

(* dir_path.rglob("*.py"): the files under the directory whose name ends   *)
(* in ".py", at any depth                                                  *)
Rglob(directory) ==
    {f \in fsFiles : TopDir(f) = directory /\ EndsWith(PathName(f), DotPy)}

(* Variant of NoNotebooks: the check for an empty list is missing *)
NoNotebooks_Unchecked(nbs) == FALSE

(* if not all_notebooks *)
NoNotebooks(nbs) == nbs = <<>>

(* Variant of AsApp: the test names the other source directory *)
AsApp_OtherDirectory(nb) == StartsWith(nb, Str_notebooks \o Str_slash)

(* as_app=nb.startswith("apps/") *)
AsApp(nb) == StartsWith(nb, Str_apps_slash)

(* Variant of LoopContinues: the loop ends at the first failed export *)
LoopContinues_UntilFailure(j, n, ok) == j < n /\ ok

(* for nb in all_notebooks: whether the loop has a next element after the  *)
(* call for element j of n has returned ok (j = 0: before the first call)  *)
LoopContinues(j, n, ok) == j < n

Discover ==
    /\ pc = "discover"
    /\ \E o1 \in Orders(Rglob(SourceDirs[1])), o2 \in Orders(Rglob(SourceDirs[2])) :
        LET found == o1 \o o2 IN
        /\ all_notebooks' = found
        /\ printed' = printed
                \cup (IF Range(SourceDirs) \subseteq fsDirs THEN {} ELSE {"Warning: Directory not found"})
                \cup (IF NoNotebooks(found) THEN {"No notebooks found!"} ELSE {})
        /\ pc' = IF NoNotebooks(found) THEN "Failed"
                 ELSE IF LoopContinues(0, Len(found), TRUE) THEN "export"
                 ELSE "load_metadata"
        /\ exitStatus' = IF NoNotebooks(found) THEN "0" ELSE exitStatus
    /\ exc' = exc
    /\ i' = 1
    /\ UNCHANGED <<inputs, running, exports, dirs, notebook_metadata, k, index, run, firstIndex>>

----------------------------------------------------------------------------
(* export_html_wasm                                                        *)

(* output_path = notebook_path.replace(".py", ".html") *)
OutputPath(notebook_path) == StrReplace(notebook_path, DotPy, DotHtml)

(* os.path.join(output_dir, output_path), output_path being relative *)
OutputFile(dir, notebook_path) == dir \o Str_slash \o OutputPath(notebook_path)

(* os.path.dirname *)
Dirname(x) ==
    IF \E n \in DOMAIN x : x[n] = "/"
    THEN SubSeq(x, 1, (CHOOSE n \in DOMAIN x : x[n] = "/" /\ \A m \in (n + 1)..Len(x) : x[m] # "/") - 1)
    ELSE <<>>

(* The directories os.makedirs(d, exist_ok=True) leaves in existence *)
MadeDirs(d) == {SubSeq(d, 1, n - 1) : n \in {m \in DOMAIN d : d[m] = "/"}} \cup {d}

(* Variant of ExportCatches: the except Exception clause is missing *)
ExportCatches_ProcessErrorOnly(e) == e = "CalledProcessError"

(* The except clauses of export_html_wasm: CalledProcessError, then Exception *)
ExportCatches(e) == e \in {"CalledProcessError", "OSError"}

NotRunning == [notebook |-> <<>>, mode |-> "", show_code |-> FALSE, output |-> <<>>]

(* The call for all_notebooks[i] ends: it returned ok, or raised e ("" for *)
(* no exception) inside its try block                                      *)
ExportEnds(invoked, ok, e) ==
    LET nb == all_notebooks[i] IN
    /\ exports' = Append(exports,
            [notebook |-> nb, as_app |-> AsApp(nb), output |-> OutputFile(output_dir, nb),
             invoked |-> invoked, ok |-> ok, error |-> e])
    /\ running' = NotRunning
    /\ i' = i + 1
    /\ IF e # "" /\ ~ExportCatches(e)
       THEN /\ pc' = "Crashed"
            /\ exitStatus' = "1"
            /\ exc' = e
            /\ printed' = printed \cup {"Traceback"}
       ELSE /\ pc' = IF LoopContinues(i, Len(all_notebooks), ok) THEN "export" ELSE "load_metadata"
            /\ exitStatus' = exitStatus
            /\ exc' = exc
            /\ printed' = printed \cup
                (CASE e = "" -> {}
                   [] e = "CalledProcessError" -> {"Error exporting"}
                   [] OTHER -> {"Unexpected error exporting"})

(* Lines 28-43, up to the start of the subprocess: os.makedirs succeeds    *)
(* and marimo is started in the mode as_app selects.                       *)
ExportStart ==
    /\ pc = "export"
    /\ LET nb == all_notebooks[i]
           output_file == OutputFile(output_dir, nb)
       IN /\ dirs' = dirs \cup MadeDirs(Dirname(output_file))
          /\ running' = [notebook |-> nb,
                         mode |-> IF AsApp(nb) THEN "run" ELSE "edit",
                         show_code |-> ~AsApp(nb),
                         output |-> output_file]
    /\ pc' = "render"
    /\ UNCHANGED <<inputs, all_notebooks, i, exports, notebook_metadata, k, index,
                   printed, exitStatus, exc, run, firstIndex>>

(* os.makedirs raises OSError: the renderer is not started *)
ExportMakedirsFails ==
    /\ pc = "export"
    /\ Dirname(OutputFile(output_dir, all_notebooks[i])) \notin dirs
    /\ ExportEnds(FALSE, FALSE, "OSError")
    /\ UNCHANGED <<inputs, all_notebooks, dirs, notebook_metadata, k, index, run, firstIndex>>

(* subprocess.run returns: exit status 0, a non-zero exit status           *)
(* (check=True raises CalledProcessError) or an OSError of the invocation  *)
ExportReturn ==
    /\ pc = "render"
    /\ \/ ExportEnds(TRUE, TRUE, "")
       \/ ExportEnds(TRUE, FALSE, "CalledProcessError")
       \/ ExportEnds(TRUE, FALSE, "OSError")
    /\ UNCHANGED <<inputs, all_notebooks, dirs, notebook_metadata, k, index, run, firstIndex>>

----------------------------------------------------------------------------
(* generate_index                                                          *)

(* dict.get(key, default); a value that is no dict has no get *)
HasGet(v) == v.t = "dict"
DictGet(v, key, default) == IF key \in DOMAIN v.d THEN v.d[key] ELSE default

(* Lines 64-73: the metadata and the message the try block ends with.      *)
(* config.get raises AttributeError inside the try when config is no dict. *)
LoadConfig(file) ==
    IF file.kind = "absent"
    THEN [metadata |-> EmptyDict, msgs |-> {"Config file not found"}]
    ELSE IF file.kind \in {"unreadable", "unparseable"} \/ ~HasGet(file.config)
    THEN [metadata |-> EmptyDict, msgs |-> {"Error loading config file"}]
    ELSE [metadata |-> DictGet(file.config, Str_notebooks, EmptyDict), msgs |-> {}]

(* Variant of SortKey: the full path is the key *)
SortKey_FullPath(x) == x

(* key=lambda x: Path(x).name *)
SortKey(x) == PathName(x)

(* list.sort(reverse=True, key=...) is stable: elements with equal keys    *)
(* keep their order.                                                       *)
RECURSIVE InsertDescending(_, _)
InsertDescending(s, x) ==
    IF s = <<>> THEN <<x>>
    ELSE IF StrLess(SortKey(s[1]), SortKey(x)) THEN <<x>> \o s
    ELSE <<s[1]>> \o InsertDescending(Tail(s), x)

RECURSIVE SortInto(_, _)
SortInto(sorted, rest) ==
    IF rest = <<>> THEN sorted
    ELSE SortInto(InsertDescending(sorted, rest[1]), Tail(rest))

SortNotebooks(nbs) == SortInto(<<>>, nbs)

(* Lines 106-108: the display key of a notebook *)
DisplayKey(notebook) == StripDatePrefix(StrReplace(PathName(notebook), DotPy, <<>>))

(* key.replace("_", " ").title() *)
DefaultTitle(key) == StrTitle(StrReplace(key, Str_underscore, Str_space))

(* Lines 111-114 raise AttributeError when notebook_metadata, or the value *)
(* it holds under key, has no get                                          *)
ResolveRaises(metadata, key) ==
    \/ ~HasGet(metadata)
    \/ ~HasGet(DictGet(metadata, key, EmptyDict))

Resolve(metadata, key) ==
    LET meta == DictGet(metadata, key, EmptyDict) IN
    [title |-> DictGet(meta, Str_title, PyStr(DefaultTitle(key))),
     description |-> DictGet(meta, Str_description, PyStr(<<>>)),
     image |-> DictGet(meta, Str_image, PyStr(<<>>))]

(* What an f-string writes for a value, and the truth of a value *)
Format(v) == IF v.t = "str" THEN v.d ELSE Str_None
Truthy(v) == v.t = "str" /\ v.d # <<>>

(* Lines 117-140: the fragments of one card *)
Card(notebook, metadata) ==
    LET r == Resolve(metadata, DisplayKey(notebook)) IN
    <<[tag |-> "a", text |-> StrReplace(notebook, DotPy, DotHtml)],
      [tag |-> "h3", text |-> Format(r.title)]>>
    \o (IF Truthy(r.description) THEN <<[tag |-> "p", text |-> Format(r.description)]>> ELSE <<>>)
    \o (IF Truthy(r.image) THEN <<[tag |-> "img", text |-> Format(r.image)]>> ELSE <<>>)

(* except IOError, the only except clause around the writes *)
IndexCatches(e) == e = "IOError"

(* An exception e leaves the with block: the file is closed as it is *)
IndexRaises(e) ==
    IF IndexCatches(e)
    THEN /\ printed' = printed \cup {"Error generating index.html"}
         /\ pc' = "Done"
         /\ exitStatus' = "0"
         /\ exc' = exc
    ELSE /\ printed' = printed \cup {"Traceback"}
         /\ pc' = "Crashed"
         /\ exitStatus' = "1"
         /\ exc' = e

LoadMetadata ==
    /\ pc = "load_metadata"
    /\ notebook_metadata' = LoadConfig(metaFile).metadata
    /\ printed' = printed \cup LoadConfig(metaFile).msgs
    /\ pc' = "open_index"
    /\ UNCHANGED <<inputs, all_notebooks, i, running, exports, dirs, k, index,
                   exitStatus, exc, run, firstIndex>>

(* Lines 76-102: sort, os.makedirs(output_dir), open index.html and write  *)
(* the head of the page                                                    *)
OpenIndex ==
    /\ pc = "open_index"
    /\ all_notebooks' = SortNotebooks(all_notebooks)
    /\ dirs' = dirs \cup {output_dir}
    /\ \/ /\ index' = [exists |-> TRUE, header |-> TRUE, cards |-> <<>>, footer |-> FALSE]
          /\ pc' = "cards"
          /\ UNCHANGED <<printed, exitStatus, exc>>
       \/ /\ IndexRaises("IOError")
          /\ index' = index
    /\ k' = 1
    /\ UNCHANGED <<inputs, i, running, exports, notebook_metadata, run, firstIndex>>

(* os.makedirs(output_dir) raises OSError, outside every try block *)
IndexMakedirsFails ==
    /\ pc = "open_index"
    /\ output_dir \notin dirs
    /\ all_notebooks' = SortNotebooks(all_notebooks)
    /\ printed' = printed \cup {"Traceback"}
    /\ pc' = "Crashed"
    /\ exitStatus' = "1"
    /\ exc' = "OSError"
    /\ UNCHANGED <<inputs, i, running, exports, dirs, notebook_metadata, k, index, run, firstIndex>>

(* One turn of the card loop *)
WriteCard ==
    /\ pc = "cards"
    /\ k <= Len(all_notebooks)
    /\ LET notebook == all_notebooks[k] IN
       IF ResolveRaises(notebook_metadata, DisplayKey(notebook))
       THEN /\ IndexRaises("AttributeError")
            /\ UNCHANGED <<index, k>>
       ELSE \/ /\ index' = [index EXCEPT !.cards = Append(@, Card(notebook, notebook_metadata))]
               /\ k' = k + 1
               /\ UNCHANGED <<pc, printed, exitStatus, exc>>
            \/ /\ IndexRaises("IOError")
               /\ UNCHANGED <<index, k>>
    /\ UNCHANGED <<inputs, all_notebooks, i, running, exports, dirs, notebook_metadata,
                   run, firstIndex>>

(* Lines 142-145, and the return of generate_index and of main *)
WriteFooter ==
    /\ pc = "cards"
    /\ k > Len(all_notebooks)
    /\ index' = [index EXCEPT !.footer = TRUE]
    /\ pc' = "Done"
    /\ exitStatus' = "0"
    /\ UNCHANGED <<inputs, all_notebooks, i, running, exports, dirs, notebook_metadata,
                   k, printed, exc, run, firstIndex>>

----------------------------------------------------------------------------
(* A second run of the script over the same source tree and metadata       *)

Rerun ==
    /\ pc = "Done"
    /\ run = 1
    /\ run' = 2
    /\ firstIndex' = index
    /\ pc' = "discover"
    /\ all_notebooks' = <<>>
    /\ i' = 1
    /\ exports' = <<>>
    /\ notebook_metadata' = EmptyDict
    /\ k' = 1
    /\ printed' = {}
    /\ exitStatus' = "running"
    /\ exc' = ""
    /\ UNCHANGED <<inputs, running, dirs, index>>

----------------------------------------------------------------------------

Init ==
    /\ fsDirs \in SUBSET Range(SourceDirs)
    /\ fsFiles \in {S \in SUBSET TreeFiles :
                        /\ Cardinality(S) <= MaxFiles
                        /\ \A f \in S : TopDir(f) \in fsDirs}
    /\ metaFile \in MetaFiles
    /\ pc = "discover"
    /\ all_notebooks = <<>>
    /\ i = 1
    /\ running = NotRunning
    /\ exports = <<>>
    /\ dirs = {}
    /\ notebook_metadata = EmptyDict
    /\ k = 1
    /\ index = NoFile
    /\ printed = {}
    /\ exitStatus = "running"
    /\ exc = ""
    /\ run = 1
    /\ firstIndex = NoFile

(* One run of the script *)
Next ==
    \/ Discover
    \/ ExportStart
    \/ ExportMakedirsFails
    \/ ExportReturn
    \/ LoadMetadata
    \/ OpenIndex
    \/ IndexMakedirsFails
    \/ WriteCard
    \/ WriteFooter

Spec == Init /\ [][Next]_vars

(* Two runs of the script over the same inputs *)
NextTwice ==
    \/ Next
    \/ Rerun

SpecTwice == Init /\ [][NextTwice]_vars

----------------------------------------------------------------------------
(* Vocabulary of the properties                                            *)

(* The orchestrator state of section 4.5 that a position of main lies in *)
Phase(p) ==
    CASE p = "discover" -> "Discovering"
      [] p \in {"export", "render"} -> "Exporting"
      [] p \in {"load_metadata", "open_index", "cards"} -> "Indexing"
      [] OTHER -> p

(* The documents a scan of the source tree finds *)
Discoverable == Rglob(SourceDirs[1]) \cup Rglob(SourceDirs[2])

(* The run is over *)
Ended == pc \in {"Done", "Failed", "Crashed"}

(* The export loop is over *)
PastExporting == Phase(pc) \in {"Indexing", "Done", "Crashed"}

(* The calls of export_html_wasm made for a notebook *)
CallsFor(nb) == {j \in DOMAIN exports : exports[j].notebook = nb}

(* The calls for a notebook in which the renderer was started *)
InvocationsFor(nb) == {j \in CallsFor(nb) : exports[j].invoked}

(* Creating the output directory, opening or writing index.html failed *)
IndexWriteFailed ==
    \/ "Error generating index.html" \in printed
    \/ pc = "Crashed" /\ exc = "OSError"

----------------------------------------------------------------------------
(* C1: in a run that reached index generation and ended, with no I/O       *)
(* failure of the index write itself, index.html holds exactly one card    *)
(* per discovered document, whatever the outcomes of the exports: as many  *)
(* cards as documents, the card at each position being that of a different *)
(* document.  Stated as the claim states it; the code violates it.         *)
C1_OneCardPerDocument ==
    (pc \in {"Done", "Crashed"} /\ ~IndexWriteFailed) =>
        /\ Len(index.cards) = Cardinality(Discoverable)
        /\ Range(all_notebooks) = Discoverable
        /\ \A j \in DOMAIN index.cards :
               index.cards[j] = Card(all_notebooks[j], notebook_metadata)

----------------------------------------------------------------------------
(* C2, as claimed: once the export loop is over, the external renderer has *)
(* been started exactly once for every discovered document.                *)
C2_RendererInvokedOncePerDocument ==
    PastExporting =>
        \A nb \in Discoverable : Cardinality(InvocationsFor(nb)) = 1

(* C2, amended: once the export loop is over, export_html_wasm has been    *)
(* called exactly once for every discovered document, whatever the other   *)
(* calls returned; the renderer was started at most once per document, and *)
(* exactly once unless os.makedirs raised in that call, which then         *)
(* returned False.  While the loop runs, the calls made are those for the  *)
(* documents before the current one, and no exception of an export ends    *)
(* the run.                                                                *)
C2_OneExportCallPerDocument ==
    /\ Phase(pc) = "Exporting" =>
           /\ Len(exports) = i - 1
           /\ \A j \in DOMAIN exports : exports[j].notebook = all_notebooks[j]
    /\ PastExporting =>
           /\ Len(exports) = Cardinality(Discoverable)
           /\ \A nb \in Discoverable :
                  /\ Cardinality(CallsFor(nb)) = 1
                  /\ Cardinality(InvocationsFor(nb)) <= 1
    /\ \A j \in DOMAIN exports :
           /\ ~exports[j].invoked => (~exports[j].ok /\ exports[j].error = "OSError")
           /\ exports[j].ok <=> exports[j].error = ""

(* A run in which the first export failed before the renderer was started  *)
(* and the second export succeeded                                         *)
C2_Witness ==
    /\ pc = "Done"
    /\ Len(exports) = 2
    /\ ~exports[1].invoked /\ ~exports[1].ok
    /\ exports[2].invoked /\ exports[2].ok

----------------------------------------------------------------------------
(* C3: if the scan finds no document, the run ends in Failed after         *)
(* printing "No notebooks found!": main has returned, no export was        *)
(* called, no directory was created under the output root and index.html   *)
(* was not written.                                                        *)
C3_NoDocumentsHalts ==
    (Discoverable = {} /\ pc # "discover") =>
        /\ pc = "Failed"
        /\ "No notebooks found!" \in printed
        /\ ~ENABLED Next
        /\ exports = <<>>
        /\ running = NotRunning
        /\ dirs = {}
        /\ index = NoFile

(* The run has halted over a source tree that holds a file, but no notebook *)
C3_Witness ==
    /\ pc = "Failed"
    /\ fsFiles = {File_apps_md}
    /\ Str_notebooks \notin fsDirs

----------------------------------------------------------------------------
(* C4: the cards of index.html are those of the notebooks in descending    *)
(* order of filename: the card at each position is the card of the         *)
(* document at that position of the sorted list, the sorted list holds the *)
(* discovered documents, and no card comes before the card of a document   *)
(* with a greater filename.                                                *)
C4_CardsDescendingByFilename ==
    Phase(pc) \in {"Done", "Crashed"} \/ pc = "cards" =>
        /\ Range(all_notebooks) = Discoverable
        /\ Len(index.cards) <= Len(all_notebooks)
        /\ \A b \in DOMAIN index.cards :
               /\ index.cards[b][1].text = OutputPath(all_notebooks[b])
               /\ \A a \in 1..(b - 1) :
                      ~StrLess(PathName(all_notebooks[a]), PathName(all_notebooks[b]))

(* A finished index of two documents from different directories that the   *)
(* scan returned in ascending order of filename                            *)
C4_Witness ==
    /\ pc = "Done"
    /\ index.footer
    /\ Len(index.cards) = 2
    /\ all_notebooks = <<File_apps_a, File_nb_a_html>>

----------------------------------------------------------------------------
(* C5: resolving the metadata of a document never raises, whatever         *)
(* notebook_metadata.yml holds, so that no run ends on an AttributeError.  *)
(* Stated as the claim states it; the code violates it.                    *)
C5_MetadataNeverAborts ==
    /\ exc # "AttributeError"
    /\ pc = "cards" =>
           \A nb \in Range(all_notebooks) :
               ~ResolveRaises(notebook_metadata, DisplayKey(nb))

----------------------------------------------------------------------------
(* C6: a run in which creating the output directory or writing index.html  *)
(* failed has logged the failure and ends with a non-zero exit status; a   *)
(* run that ended otherwise through Done ends with exit status 0.  Stated  *)
(* as the claim states it; the code violates it.                           *)
C6_IndexWriteFailureIsUnsuccessful ==
    Ended =>
        /\ IndexWriteFailed =>
               /\ exitStatus # "0"
               /\ printed \cap {"Error generating index.html", "Traceback"} # {}
        /\ (pc = "Done" /\ ~IndexWriteFailed) => exitStatus = "0"

----------------------------------------------------------------------------
(* C7: when the second run over the same source tree and metadata has      *)
(* written index.html to its end, and so had the first, the two contents   *)
(* are equal.  Stated as the claim states it; the code violates it.        *)
C7_SecondRunWritesSameIndex ==
    (run = 2 /\ pc = "Done" /\ ~IndexWriteFailed /\ firstIndex.footer) =>
        index = firstIndex

----------------------------------------------------------------------------
(* C8: a document is exported in run mode with the code hidden if it was   *)
(* found under apps, and in edit mode with the code shown if it was found  *)
(* under any other directory; all calls for a document use one mode.       *)
C8_ModeFollowsSourceDirectory ==
    /\ \A j \in DOMAIN exports :
           exports[j].as_app <=> (TopDir(exports[j].notebook) = Str_apps)
    /\ pc = "render" =>
           IF TopDir(running.notebook) = Str_apps
           THEN running.mode = "run" /\ ~running.show_code
           ELSE running.mode = "edit" /\ running.show_code
    /\ \A a, b \in DOMAIN exports :
           exports[a].notebook = exports[b].notebook => exports[a].as_app = exports[b].as_app

(* A run that exported a notebook and an app *)
C8_Witness ==
    /\ pc = "Done"
    /\ \E a, b \in DOMAIN exports :
           /\ exports[a].as_app /\ exports[a].invoked
           /\ ~exports[b].as_app /\ exports[b].invoked

----------------------------------------------------------------------------
(* The parts of C9 *)

(* The orchestrator changes state along the pipeline only *)
C9_Order ==
    Phase(pc') # Phase(pc) =>
        <<Phase(pc), Phase(pc')>> \in
            {<<"Discovering", "Exporting">>, <<"Discovering", "Failed">>,
             <<"Exporting", "Indexing">>, <<"Indexing", "Done">>,
             <<"Indexing", "Crashed">>}

(* Once the export loop is over no export is called and no renderer runs *)
C9_NoExportOnceIndexing ==
    PastExporting => (exports' = exports /\ running' = NotRunning)

(* The guard of the step main takes next holds *)
C9_CanStep ==
    \/ pc \in {"discover", "load_metadata", "open_index"}
    \/ pc = "export" /\ i \in DOMAIN all_notebooks
    \/ pc = "render" /\ i \in DOMAIN all_notebooks
    \/ pc = "cards" /\ k \in 1..(Len(all_notebooks) + 1)

(* What holds in every state of a run *)
C9_State ==
    /\ Phase(pc) \in {"Exporting", "Indexing", "Done", "Crashed"} => Discoverable # {}
    /\ pc = "Failed" => Discoverable = {}
    /\ PastExporting =>
           /\ running = NotRunning
           /\ Len(exports) = Len(all_notebooks)
           /\ Range(all_notebooks) = Discoverable
    /\ running # NotRunning =>
           /\ pc = "render"
           /\ running.notebook = all_notebooks[i]
           /\ Len(exports) = i - 1
    /\ pc = "Crashed" =>
           \/ exc = "OSError" /\ output_dir \notin dirs
           \/ exc = "AttributeError" /\ metaFile.kind = "parsed"
    /\ ~Ended => C9_CanStep

----------------------------------------------------------------------------
(* C10: no two documents of a run are rendered to the same output file:   *)
(* the calls of export_html_wasm that started the renderer passed it       *)
(* different output files.  Stated as the claim states it; the code        *)
(* violates it.                                                            *)
C10_OutputPathsDistinct ==
    \A a, b \in DOMAIN exports :
        (a # b /\ exports[a].invoked /\ exports[b].invoked) =>
            exports[a].output # exports[b].output

====
